---- MODULE Spec2Model ----
(***************************************************************************)
(* Case resolution and cache subsystem of PowerfulCases                    *)
(* (src/powerfulcases/cases.py).                                           *)
(*                                                                         *)
(* Python strings on which the code does character work (`"/" in s`,       *)
(* `s.split("/")`, `s[1] == ":"`, sorting) are sequences of one-character   *)
(* strings.  A filesystem path is a record [root, parts]: a root marker    *)
(* and the sequence of its components below that root.                     *)
(***************************************************************************)
EXTENDS Naturals, Sequences, FiniteSets, TLC

VARIABLES
    tree,       \* the bundled hierarchy below CASES_DIR: directory -> kind
    registry,   \* list_remote_cases(): the remote registry's entries
    cacheRoot,  \* the process-wide cache root (get_cache_dir())
    cached,     \* cache root -> the case paths with a non-empty directory
    last        \* the last call made, with its arguments and outcome

vars == <<tree, registry, cacheRoot, cached, last>>

(***************************************************************************)
(* Strings                                                                 *)
(***************************************************************************)

\* Longest string drawn for the pure string functions.
MaxLen == 3

\* Characters the bounded strings are drawn from.
Alphabet == {".", "/", "\\", ":", "a", "1"}

\* Code points, for the order Python's sorted() puts on str.
Ord(ch) ==
    CASE ch = "." -> 46
      [] ch = "/" -> 47
      [] ch = "0" -> 48
      [] ch = "1" -> 49
      [] ch = "2" -> 50
      [] ch = "3" -> 51
      [] ch = "4" -> 52
      [] ch = "5" -> 53
      [] ch = "6" -> 54
      [] ch = "7" -> 55
      [] ch = "8" -> 56
      [] ch = "9" -> 57
      [] ch = ":" -> 58
      [] ch = "\\" -> 92
      [] ch = "a" -> 97
      [] ch = "b" -> 98
      [] ch = "c" -> 99
      [] ch = "d" -> 100
      [] ch = "e" -> 101
      [] ch = "h" -> 104
      [] ch = "i" -> 105
      [] ch = "l" -> 108
      [] ch = "n" -> 110
      [] ch = "r" -> 114
      [] ch = "s" -> 115
      [] ch = "t" -> 116
      [] ch = "x" -> 120
      [] ch = "y" -> 121
      [] ch = "z" -> 122

IsLetter(ch) == (Ord(ch) >= 97 /\ Ord(ch) <= 122) \/ (Ord(ch) >= 65 /\ Ord(ch) <= 90)

\* str.__lt__: lexicographic by code point, a proper prefix is smaller.
RECURSIVE StrLess(_, _)
StrLess(a, b) ==
    IF b = <<>> THEN FALSE
    ELSE IF a = <<>> THEN TRUE
    ELSE IF Head(a) # Head(b) THEN Ord(Head(a)) < Ord(Head(b))
    ELSE StrLess(Tail(a), Tail(b))

\* `sub in s`
Contains(s, sub) ==
    \E i \in 1..(Len(s) + 1) :
        /\ i + Len(sub) - 1 <= Len(s)
        /\ SubSeq(s, i, i + Len(sub) - 1) = sub

\* s.startswith(p)
StartsWith(s, p) == Len(s) >= Len(p) /\ SubSeq(s, 1, Len(p)) = p

\* s.split("/"): the pieces between separators, empty pieces kept.
RECURSIVE SplitFrom(_, _)
SplitFrom(s, piece) ==
    IF s = <<>> THEN <<piece>>
    ELSE IF Head(s) = "/" THEN <<piece>> \o SplitFrom(Tail(s), <<>>)
    ELSE SplitFrom(Tail(s), Append(piece, Head(s)))

Split(s) == SplitFrom(s, <<>>)

\* sorted(names) for a set of strings.
RECURSIVE Sorted(_)
Sorted(S) ==
    IF S = {} THEN <<>>
    ELSE LET m == CHOOSE a \in S : \A b \in S \ {a} : StrLess(a, b)
         IN <<m>> \o Sorted(S \ {m})

\* seq[:n]
Take(seq, n) == SubSeq(seq, 1, IF Len(seq) < n THEN Len(seq) ELSE n)

Range(seq) == {seq[i] : i \in 1..Len(seq)}

RECURSIVE StringsOfLen(_)
StringsOfLen(n) ==
    IF n = 0 THEN {<<>>}
    ELSE {Append(s, ch) : s \in StringsOfLen(n - 1), ch \in Alphabet}

BoundedStrings == UNION {StringsOfLen(n) : n \in 0..MaxLen}

(***************************************************************************)
(* Path safety validator                                                   *)
(***************************************************************************)

\* A call's normal return / a raised exception.
Ok(v) == [kind |-> "ok", value |-> v]
\* An exception carries its class, which message it is, the name the message
\* quotes and the list the message prints.
Raise(exc, msg, subject, detail) ==
    [kind |-> "raise", exc |-> exc, msg |-> msg, subject |-> subject, detail |-> detail]

\* A validator that forgets the absolute-path check.
ValidateNoAbsoluteCheck(component) ==
    IF component = <<>> THEN Raise("ValueError", "empty", <<>>, <<>>)
    ELSE IF Contains(component, <<".", ".">>) \/ Contains(component, <<"/">>)
            \/ Contains(component, <<"\\">>)
    THEN Raise("ValueError", "separators", component, <<>>)
    ELSE Ok("None")

\* _validate_path_component: returns None or raises ValueError.
_validate_path_component(component) ==
    IF component = <<>> THEN Raise("ValueError", "empty", <<>>, <<>>)
    ELSE IF Contains(component, <<".", ".">>) \/ Contains(component, <<"/">>)
            \/ Contains(component, <<"\\">>)
    THEN Raise("ValueError", "separators", component, <<>>)
    ELSE IF StartsWith(component, <<"/">>)
            \/ (Len(component) > 1 /\ component[2] = ":")
    THEN Raise("ValueError", "absolute", component, <<>>)
    ELSE Ok("None")

(***************************************************************************)
(* The filesystem                                                          *)
(***************************************************************************)

\* Python's None where a str is expected: no real string equals it.
NoneVal == <<"<None>">>

Path(root, parts) == [root |-> root, parts |-> parts]

\* Path.name / Path.parent
PathName(p) == p.parts[Len(p.parts)]
PathParent(p) == Path(p.root, SubSeq(p.parts, 1, Len(p.parts) - 1))

\* CASES_DIR = Path(__file__).parent / "cases"
CASES_DIR == Path("CASES_DIR", <<>>)

\* The directories the bundled hierarchy may hold.
P_x == << <<"x">> >>
P_c == << <<"c">> >>
P_cx == << <<"c">>, <<"x">> >>
P_cy == << <<"c">>, <<"y">> >>
P_d == << <<"d">> >>
P_dx == << <<"d">>, <<"x">> >>
P_h == << <<".", "h">> >>
P_hx == << <<".", "h">>, <<"x">> >>

Candidates == {P_x, P_c, P_cx, P_cy, P_d, P_dx, P_h, P_hx}

TopNames == {p[1] : p \in {q \in Candidates : Len(q) = 1}}

\* absent; a real directory without / with manifest.toml; a symbolic link
\* to a directory outside CASES_DIR.
Kinds == {"absent", "dir", "manifest", "escape"}

\* Path.is_dir() below CASES_DIR (follows symbolic links).
BundledIsDir(t, parts) == parts \in Candidates /\ t[parts] # "absent"

\* Path.resolve() below CASES_DIR: a path through an escaping link resolves
\* outside the root.
BundledResolve(t, parts) ==
    IF \E n \in 1..Len(parts) : t[SubSeq(parts, 1, n)] = "escape"
    THEN Path("outside", parts)
    ELSE Path("CASES_DIR", parts)

\* PurePath.is_relative_to
is_relative_to(child, parent) ==
    /\ child.root = parent.root
    /\ Len(parent.parts) <= Len(child.parts)
    /\ SubSeq(child.parts, 1, Len(parent.parts)) = parent.parts

\* CASES_DIR.iterdir(): the entries present, in an order the operating
\* system chooses.
Orders(t) ==
    LET present == {n \in TopNames : t[<<n>>] # "absent"}
    IN {o \in [1..Cardinality(present) -> present] :
            \A i, j \in DOMAIN o : i # j => o[i] # o[j]}

(***************************************************************************)
(* Remote registry and cache (powerfulcases.registry, powerfulcases.cache) *)
(***************************************************************************)

CacheRoots == {"home", "cwd"}

\* Directories of the working directory that no call creates or removes.
StaticLocal == {<< <<"l">> >>}

\* The registry's cases that ship a manifest.toml.
RemoteShipsManifest(name) == Contains(name, <<"/">>)

\* is_remote_case
is_remote_case(reg, name) == name \in Range(reg)

\* is_case_cached: a non-empty directory exists under the cache root.
is_case_cached(c, root, name) ==
    \E e \in c[root] : is_relative_to(Path(root, Split(e)), Path(root, Split(name)))

\* get_cached_case_dir
get_cached_case_dir(root, name) == Path(root, Split(name))

\* The cache after download(name): the case's directory under the root.
AfterDownload(c, root, name) == [c EXCEPT ![root] = @ \cup {name}]

\* The cache after clear(name): the subtree of name removed; clear(None)
\* removes the whole root.
AfterClear(c, root, name) ==
    IF name = NoneVal THEN [c EXCEPT ![root] = {}]
    ELSE [c EXCEPT ![root] =
            {e \in @ : ~is_relative_to(Path(root, Split(e)), Path(root, Split(name)))}]

\* list_cached_cases: the immediate subdirectories holding a case.
list_cached_cases(c, root) == Sorted({e \in c[root] : Len(Split(e)) = 1})

\* Path(s): empty and "." pieces are dropped.
PathParts(s) == SelectSeq(Split(s), LAMBDA piece : piece # <<>> /\ piece # <<".">>)

\* Path(name_or_path).is_dir(), relative to the working directory: a
\* directory found there, or one a download put there when the cache root
\* is the working directory.
LocalIsDir(c, s) ==
    /\ s # <<>>
    /\ Head(s) # "/"
    /\ PathParts(s) # <<>>
    /\ \/ PathParts(s) \in StaticLocal
       \/ \E e \in c["cwd"] :
            is_relative_to(Path("cwd", Split(e)), Path("cwd", PathParts(s)))

\* (directory / "manifest.toml").is_file()
HasManifestFile(t, c, dir) ==
    IF dir.root = "CASES_DIR" THEN dir.parts \in Candidates /\ t[dir.parts] = "manifest"
    ELSE IF dir.root \in CacheRoots
    THEN \E e \in c[dir.root] : Split(e) = dir.parts /\ RemoteShipsManifest(e)
    ELSE FALSE

\* parse_manifest / infer_manifest: the manifest read from, or inferred
\* for, a directory.
parse_manifest(dir) == [how |-> "parsed", of |-> dir]
infer_manifest(dir) == [how |-> "inferred", of |-> dir]

(***************************************************************************)
(* Discovery: cases()                                                      *)
(***************************************************************************)

RECURSIVE Concat(_)
Concat(seqs) == IF seqs = <<>> THEN <<>> ELSE Head(seqs) \o Concat(Tail(seqs))

\* The tags a bundled manifest declares.
ManifestTags(parts) ==
    IF parts = P_cx THEN << <<"t">> >>
    ELSE IF parts = P_dx THEN << <<"b">> >>
    ELSE <<>>

\* The sub-directories of a top-level directory, by name.
Children(t, top, kinds) ==
    Sorted({p[2] : p \in {q \in Candidates : Len(q) = 2 /\ q[1] = top /\ t[q] \in kinds}})

EmptyDict == [k \in {} |-> <<>>]

\* result[name] = value / if name not in result: result[name] = value,
\* for a list of (name, collection, tags) in order.
RECURSIVE PutAll(_, _, _)
PutAll(result, entries, overwrite) ==
    IF entries = <<>> THEN result
    ELSE LET e == Head(entries)
             next == IF overwrite \/ e[1] \notin DOMAIN result
                     THEN (e[1] :> <<e[2], e[3]>>) @@ result
                     ELSE result
         IN PutAll(next, Tail(entries), overwrite)

\* CASES_DIR.rglob("manifest.toml"), in the order the directories are walked.
ManifestEntries(t, order) ==
    Concat([i \in 1..Len(order) |->
        LET top == order[i]
            kids == Children(t, top, {"manifest"})
        IN (IF t[<<top>>] = "manifest" /\ ~StartsWith(top, <<".">>)
            THEN << <<top, NoneVal, ManifestTags(<<top>>)>> >> ELSE <<>>)
           \o SelectSeq([j \in 1..Len(kids) |-> <<kids[j], top, ManifestTags(<<top, kids[j]>>)>>],
                        LAMBDA e : ~StartsWith(e[1], <<".">>))])

\* The directories under a collection directory, manifest or not.
InferredEntries(t, order) ==
    Concat([i \in 1..Len(order) |->
        LET top == order[i]
            kids == Children(t, top, Kinds \ {"absent"})
        IN IF t[<<top>>] = "absent" \/ StartsWith(top, <<".">>) THEN <<>>
           ELSE [j \in 1..Len(kids) |-> <<kids[j], top, <<>>>>]])

RemoteEntries(reg) ==
    [i \in 1..Len(reg) |->
        IF Contains(reg[i], <<"/">>)
        THEN <<Split(reg[i])[Len(Split(reg[i]))], Split(reg[i])[1], <<>>>>
        ELSE <<reg[i], NoneVal, <<>>>>]

CachedEntries(c, root) ==
    LET names == list_cached_cases(c, root)
    IN [i \in 1..Len(names) |-> <<names[i], NoneVal, <<>>>>]

\* The dictionary name -> (collection, tags) that cases() builds.
CasesDict(t, reg, c, root, order) ==
    PutAll(PutAll(PutAll(PutAll(EmptyDict,
        ManifestEntries(t, order), TRUE),
        InferredEntries(t, order), FALSE),
        RemoteEntries(reg), FALSE),
        CachedEntries(c, root), FALSE)

\* A listing that forgets the registry and the cache.
CasesBundledOnly(t, reg, c, root, order, collection, tag) ==
    LET result == PutAll(PutAll(EmptyDict,
                      ManifestEntries(t, order), TRUE),
                      InferredEntries(t, order), FALSE)
    IN Sorted({name \in DOMAIN result :
            /\ collection = NoneVal \/ result[name][1] = collection
            /\ tag = NoneVal \/ tag \in Range(result[name][2])})

\* A listing that ignores the collection filter.
CasesIgnoresCollection(t, reg, c, root, order, collection, tag) ==
    LET result == CasesDict(t, reg, c, root, order)
    IN Sorted({name \in DOMAIN result : tag = NoneVal \/ tag \in Range(result[name][2])})

\* cases(collection, tag)
cases(t, reg, c, root, order, collection, tag) ==
    LET result == CasesDict(t, reg, c, root, order)
    IN Sorted({name \in DOMAIN result :
            /\ collection = NoneVal \/ result[name][1] = collection
            /\ tag = NoneVal \/ tag \in Range(result[name][2])})

(***************************************************************************)
(* Case resolver: load()                                                   *)
(***************************************************************************)

\* CaseBundle(name, directory, manifest, is_remote)
CaseBundle(name, directory, manifest, is_remote) ==
    [name |-> name, dir |-> directory, manifest |-> manifest, is_remote |-> is_remote]

\* What a call did: its result, the cache it leaves, and its calls to the
\* cache and the registry, in order.
Done(result, c, calls) == [result |-> result, cached |-> c, calls |-> calls]

LoadManifest(t, c, directory) ==
    IF HasManifestFile(t, c, directory) THEN parse_manifest(directory)
    ELSE infer_manifest(directory)

\* A bundled loader that never reads manifest.toml.
LoadBundledAlwaysInfers(t, c, name, directory) ==
    Ok(CaseBundle(name, directory, infer_manifest(directory), FALSE))

\* _load_bundled_case
_load_bundled_case(t, c, name, directory) ==
    Ok(CaseBundle(name, directory, LoadManifest(t, c, directory), FALSE))

\* _load_local_case
_load_local_case(t, c, directory) ==
    Ok(CaseBundle(PathName(directory), directory, LoadManifest(t, c, directory), FALSE))

\* A remote loader that trusts the cache directory and never downloads.
LoadRemoteNeverDownloads(t, c, root, name_or_path) ==
    LET directory == get_cached_case_dir(root, name_or_path)
        case_name == IF Contains(name_or_path, <<"/">>)
                     THEN Split(name_or_path)[Len(Split(name_or_path))]
                     ELSE name_or_path
    IN Done(Ok(CaseBundle(case_name, directory, LoadManifest(t, c, directory), TRUE)),
            c, <<"is_case_cached", "get_cached_case_dir">>)

\* A remote loader that downloads whether or not the case is cached.
LoadRemoteDownloadsAgain(t, c, root, name_or_path) ==
    LET c2 == AfterDownload(c, root, name_or_path)
        directory == get_cached_case_dir(root, name_or_path)
        case_name == IF Contains(name_or_path, <<"/">>)
                     THEN Split(name_or_path)[Len(Split(name_or_path))]
                     ELSE name_or_path
    IN Done(Ok(CaseBundle(case_name, directory, LoadManifest(t, c2, directory), TRUE)),
            c2, <<"is_case_cached", "download", "get_cached_case_dir">>)

\* _load_remote_case
_load_remote_case(t, c, root, name_or_path) ==
    LET hit == is_case_cached(c, root, name_or_path)
        c2 == IF hit THEN c ELSE AfterDownload(c, root, name_or_path)
        directory == get_cached_case_dir(root, name_or_path)
        case_name == IF Contains(name_or_path, <<"/">>)
                     THEN Split(name_or_path)[Len(Split(name_or_path))]
                     ELSE name_or_path
    IN Done(Ok(CaseBundle(case_name, directory, LoadManifest(t, c2, directory), TRUE)),
            c2,
            <<"is_case_cached">> \o (IF hit THEN <<>> ELSE <<"download">>)
                \o <<"get_cached_case_dir">>)

\* The collection loop of _find_case_in_collections.
RECURSIVE SearchCollections(_, _, _)
SearchCollections(t, case_name, order) ==
    IF order = <<>> THEN <<>>
    ELSE LET coll == Head(order)
             case_dir == <<coll, case_name>>
             found == /\ BundledIsDir(t, <<coll>>)
                      /\ ~StartsWith(coll, <<".">>)
                      /\ BundledIsDir(t, case_dir)
                      /\ is_relative_to(BundledResolve(t, case_dir),
                                        BundledResolve(t, <<coll>>))
         IN (IF found THEN <<Path("CASES_DIR", case_dir)>> ELSE <<>>)
            \o SearchCollections(t, case_name, Tail(order))

\* _find_case_in_collections
_find_case_in_collections(t, case_name, order) ==
    LET valid == _validate_path_component(case_name)
        top_level_case == <<case_name>>
    IN IF valid.kind = "raise" THEN valid
       ELSE Ok((IF /\ BundledIsDir(t, top_level_case)
                   /\ is_relative_to(BundledResolve(t, top_level_case), CASES_DIR)
                THEN <<Path("CASES_DIR", top_level_case)>> ELSE <<>>)
               \o SearchCollections(t, case_name, order))

\* _find_remote_case_by_name
_find_remote_case_by_name(reg, case_name) ==
    LET matches == SelectSeq(reg, LAMBDA remote_path :
                        (IF Contains(remote_path, <<"/">>)
                         THEN Split(remote_path)[Len(Split(remote_path))]
                         ELSE remote_path) = case_name)
    IN IF Len(matches) > 1
       THEN Raise("ValueError", "ambiguous_remote", case_name, matches)
       ELSE Ok(IF matches # <<>> THEN matches[1] ELSE NoneVal)

\* available[:10]
AvailableShown == 10

BUNDLED == <<"b", "u", "n", "d", "l", "e", "d">>
REMOTE == <<"r", "e", "m", "o", "t", "e">>
ROOT == <<"(", "r", "o", "o", "t", ")">>

\* The (source_type, collection, location) tuples load() collects.
BundledMatches(case_dirs) ==
    [i \in 1..Len(case_dirs) |->
        <<BUNDLED,
          IF PathParent(case_dirs[i]) # CASES_DIR
          THEN PathName(PathParent(case_dirs[i])) ELSE ROOT,
          case_dirs[i]>>]

RemoteMatches(remote_path) ==
    IF remote_path # NoneVal /\ remote_path # <<>>
    THEN << <<REMOTE,
              IF Contains(remote_path, <<"/">>) THEN Split(remote_path)[1] ELSE ROOT,
              remote_path>> >>
    ELSE <<>>

\* A resolver that takes the first match when there are several.
LoadByNameFirstMatch(t, reg, c, root, name_or_path, order) ==
    LET found == _find_case_in_collections(t, name_or_path, order)
        remote == _find_remote_case_by_name(reg, name_or_path)
    IN IF found.kind = "raise" THEN Done(found, c, <<>>)
       ELSE IF remote.kind = "raise" THEN Done(remote, c, <<>>)
       ELSE LET matches == BundledMatches(found.value) \o RemoteMatches(remote.value)
            IN IF Len(matches) >= 1
               THEN IF matches[1][1] = BUNDLED
                    THEN Done(_load_bundled_case(t, c, name_or_path, matches[1][3]), c, <<>>)
                    ELSE _load_remote_case(t, c, root, matches[1][3])
               ELSE Done(Raise("ValueError", "unknown", name_or_path,
                               Take(cases(t, reg, c, root, order, NoneVal, NoneVal),
                                    AvailableShown)),
                         c, <<>>)

\* load(), step 3 onwards: the search by bare name.
LoadByName(t, reg, c, root, name_or_path, order) ==
    LET found == _find_case_in_collections(t, name_or_path, order)
        remote == _find_remote_case_by_name(reg, name_or_path)
    IN IF found.kind = "raise" THEN Done(found, c, <<>>)
       ELSE IF remote.kind = "raise" THEN Done(remote, c, <<>>)
       ELSE LET matches == BundledMatches(found.value) \o RemoteMatches(remote.value)
            IN IF Len(matches) > 1
               THEN Done(Raise("ValueError", "ambiguous", name_or_path,
                               [i \in 1..Len(matches) |->
                                   matches[i][1] \o <<":">> \o matches[i][2]]),
                         c, <<>>)
               ELSE IF Len(matches) = 1
               THEN IF matches[1][1] = BUNDLED
                    THEN Done(_load_bundled_case(t, c, name_or_path, matches[1][3]), c, <<>>)
                    ELSE _load_remote_case(t, c, root, matches[1][3])
               ELSE Done(Raise("ValueError", "unknown", name_or_path,
                               Take(cases(t, reg, c, root, order, NoneVal, NoneVal),
                                    AvailableShown)),
                         c, <<>>)

\* The first component that _validate_path_component refuses, if any.
ValidateParts(parts) ==
    LET bad == {i \in 1..Len(parts) : _validate_path_component(parts[i]).kind = "raise"}
    IN IF bad = {} THEN Ok("None")
       ELSE _validate_path_component(parts[CHOOSE i \in bad : \A j \in bad : i <= j])

\* load(name_or_path)
load(t, reg, c, root, name_or_path, order) ==
    IF LocalIsDir(c, name_or_path)
    THEN Done(_load_local_case(t, c, Path("cwd", PathParts(name_or_path))), c, <<>>)
    ELSE IF Contains(name_or_path, <<"/">>)
    THEN LET parts == Split(name_or_path)
             valid == ValidateParts(parts)
         IN IF valid.kind = "raise" THEN Done(valid, c, <<>>)
            ELSE IF /\ BundledIsDir(t, parts)
                    /\ is_relative_to(BundledResolve(t, parts), CASES_DIR)
            THEN Done(_load_bundled_case(t, c, parts[Len(parts)], Path("CASES_DIR", parts)),
                      c, <<>>)
            ELSE IF is_remote_case(reg, name_or_path)
            THEN _load_remote_case(t, c, root, name_or_path)
            ELSE LoadByName(t, reg, c, root, name_or_path, order)
    ELSE LoadByName(t, reg, c, root, name_or_path, order)

(***************************************************************************)
(* The environment a process starts in, and the calls it makes             *)
(***************************************************************************)

S_x == <<"x">>
S_y == <<"y">>
S_z == <<"z">>
S_l == <<"l">>
S_cx == <<"c", "/", "x">>
S_cz == <<"c", "/", "z">>
S_rx == <<"r", "/", "x">>
S_sx == <<"s", "/", "x">>
S_xcolon == <<"x", ":">>

\* A registry with more entries than an error message lists.
BigRegistry ==
    << <<"n", "0">>, <<"n", "1">>, <<"n", "2">>, <<"n", "3">>, <<"n", "4">>, <<"n", "5">>,
       <<"n", "6">>, <<"n", "7">>, <<"n", "8">>, <<"n", "9">>, <<"n", "a">> >>

Registries == {<<>>, <<S_x>>, <<S_cx>>, <<S_rx, S_sx>>, BigRegistry}

\* The bundled hierarchies: a child needs its parent, and what lies behind
\* an escaping link is a plain directory.  The second collection, the
\* hidden directory and the second case of a collection each come with
\* the directories they are compared against.
Trees ==
    {t \in [Candidates -> Kinds] :
        /\ t[P_x] \in {"absent", "manifest", "escape"}
        /\ t[P_c] \in {"absent", "dir", "escape"}
        /\ t[P_c] = "absent" => t[P_cx] = "absent"
        /\ t[P_c] = "escape" => t[P_cx] = "dir"
        /\ t[P_cy] \in {"absent", "dir"}
        /\ t[P_cy] = "dir" => t[P_c] = "dir" /\ t[P_x] = "absent" /\ t[P_d] = "absent"
                                /\ t[P_h] = "absent"
        /\ t[P_d] = (IF t[P_dx] = "manifest" THEN "dir" ELSE "absent")
        /\ t[P_dx] \in {"absent", "manifest"}
        /\ t[P_dx] = "manifest" => t[P_c] = "dir" /\ t[P_cx] \in {"dir", "manifest"}
        /\ t[P_h] = (IF t[P_hx] = "manifest" THEN "dir" ELSE "absent")
        /\ t[P_hx] \in {"absent", "manifest"}
        /\ t[P_hx] = "manifest" => t[P_x] = "absent" /\ t[P_d] = "absent"}

LoadInputs == {S_x, S_y, S_z, S_l, S_cx, S_cz, S_rx, S_xcolon}
DownloadInputs == {S_x, S_rx, S_cx, S_z}
ClearInputs == {NoneVal, S_x, S_rx, S_cx}

\* A call as the property statements see it: the call, its arguments, the
\* cache root and cache it started from, its result, its calls to the cache
\* and the registry, and, when the call just before it had the same
\* argument, what that call was and did.
Call(op, arg, result, calls) ==
    [op |-> op, arg |-> arg, root |-> cacheRoot, before |-> cached,
     result |-> result, calls |-> calls,
     prev |-> IF last.arg = arg
              THEN <<[op |-> last.op, ok |-> last.result.kind = "ok",
                      downloaded |-> "download" \in Range(last.calls),
                      was_cached |-> is_case_cached(last.before, last.root, arg)]>>
              ELSE <<>>]

Init ==
    /\ tree \in Trees
    /\ registry \in Registries
    /\ cacheRoot = "home"
    /\ cached = [r \in CacheRoots |-> {}]
    /\ last = [op |-> "init", arg |-> <<>>, root |-> "home",
               before |-> [r \in CacheRoots |-> {}],
               result |-> Ok("None"), calls |-> <<>>, prev |-> <<>>]

\* load(name_or_path)
Load ==
    \E name_or_path \in LoadInputs, order \in Orders(tree) :
      \E r \in {load(tree, registry, cached, cacheRoot, name_or_path, order)} :
           /\ cached' = r.cached
           /\ last' = Call("load", name_or_path, r.result, r.calls)
           /\ UNCHANGED <<tree, registry, cacheRoot>>

\* download(name): fetches a registry entry into the cache.
download(reg, c, root, name) ==
    IF is_remote_case(reg, name)
    THEN Done(Ok(get_cached_case_dir(root, name)), AfterDownload(c, root, name),
              <<"download">>)
    ELSE Done(Raise("ValueError", "not_remote", name, <<>>), c, <<>>)

Download ==
    \E name \in DownloadInputs :
      \E r \in {download(registry, cached, cacheRoot, name)} :
        /\ cached' = r.cached
        /\ last' = Call("download", name, r.result, r.calls)
        /\ UNCHANGED <<tree, registry, cacheRoot>>

\* clear(name) / clear(None)
Clear ==
    \E name \in ClearInputs :
        /\ cached' = AfterClear(cached, cacheRoot, name)
        /\ last' = Call("clear", name, Ok("None"), <<>>)
        /\ UNCHANGED <<tree, registry, cacheRoot>>

\* set_cache_dir(root)
SetCacheDir ==
    \E root \in CacheRoots :
        /\ cacheRoot' = root
        /\ last' = [Call("set_cache_dir", <<root>>, Ok("None"), <<>>) EXCEPT !.root = root]
        /\ UNCHANGED <<tree, registry, cached>>

Next == Load \/ Download \/ Clear \/ SetCacheDir

Spec == Init /\ [][Next]_vars

(***************************************************************************)
(* Properties of the resolver                                              *)
(***************************************************************************)

Bare(name) == ~Contains(name, <<"/">>)

\* The last call was load(bare name) and the name was no local directory.
BareLoad ==
    /\ last.op = "load"
    /\ Bare(last.arg)
    /\ ~LocalIsDir(last.before, last.arg)

\* The bundled directories called `name` that discovery accepts: at the
\* legacy top level or directly under a non-hidden collection directory,
\* and not themselves a link out of their parent.
BundledLocations(name) ==
    {p \in Candidates :
        /\ p[Len(p)] = name
        /\ tree[p] \in {"dir", "manifest"}
        /\ Len(p) = 2 => Head(p[1]) # "."}

\* The registry entries whose trailing segment is `name`.
RemoteLocations(name) ==
    {i \in 1..Len(registry) : Split(registry[i])[Len(Split(registry[i]))] = name}

MatchCount(name) ==
    Cardinality(BundledLocations(name)) + Cardinality(RemoteLocations(name))

Returned == last.result.kind = "ok"
Failed == last.result.kind = "raise"

\* C1: load(bare name) fails whenever the name matches two or more
\* locations over the bundled directories and the registry; when it returns
\* a bundle, exactly one location matched.
C1_AmbiguousNeverReturns ==
    BareLoad =>
        /\ MatchCount(last.arg) >= 2 => Failed
        /\ Returned => MatchCount(last.arg) = 1

\* A bare name with a bundled and a remote match was refused.
C1_Witness ==
    /\ BareLoad
    /\ BundledLocations(last.arg) # {}
    /\ RemoteLocations(last.arg) # {}
    /\ Failed

\* The source:collection pair of each match.
PairOfBundled(p) == BUNDLED \o <<":">> \o (IF Len(p) = 2 THEN p[1] ELSE ROOT)
PairOfRemote(i) ==
    REMOTE \o <<":">> \o (IF Contains(registry[i], <<"/">>) THEN Split(registry[i])[1] ELSE ROOT)

\* C2: when load(bare name) fails on more than one match, the error lists
\* one source:collection pair per match, for every match found.
C2_AmbiguityListsEveryMatch ==
    (BareLoad /\ MatchCount(last.arg) >= 2 /\ Failed) =>
        /\ Len(last.result.detail) = MatchCount(last.arg)
        /\ Range(last.result.detail) =
              {PairOfBundled(p) : p \in BundledLocations(last.arg)}
              \cup {PairOfRemote(i) : i \in RemoteLocations(last.arg)}

\* The names cases() lists with no filter.
AvailableNames ==
    {p[Len(p)] : p \in {q \in Candidates :
        /\ tree[q] # "absent"
        /\ \/ tree[q] = "manifest" /\ Head(q[Len(q)]) # "."
           \/ Len(q) = 2 /\ Head(q[1]) # "."}}
    \cup {Split(registry[i])[Len(Split(registry[i]))] : i \in 1..Len(registry)}
    \cup {e \in last.before[last.root] : Bare(e)}

\* C3: load of a valid bare name with no match at all fails with the
\* unknown-case error, which quotes the name and lists the first (at most
\* ten) names of the sorted list of available cases; nothing is downloaded.
C3_UnknownCase ==
    (/\ BareLoad
     /\ _validate_path_component(last.arg).kind = "ok"
     /\ MatchCount(last.arg) = 0)
    => /\ Failed
       /\ last.result.exc = "ValueError"
       /\ last.result.msg = "unknown"
       /\ last.result.subject = last.arg
       /\ Len(last.result.detail) =
             (IF Cardinality(AvailableNames) < 10 THEN Cardinality(AvailableNames) ELSE 10)
       /\ Range(last.result.detail) \subseteq AvailableNames
       /\ \A i, j \in 1..Len(last.result.detail) :
             i < j => StrLess(last.result.detail[i], last.result.detail[j])
       /\ \A n \in AvailableNames \ Range(last.result.detail) :
             \A i \in 1..Len(last.result.detail) : StrLess(last.result.detail[i], n)
       /\ last.calls = <<>>
       /\ cached = last.before

\* An unknown name was refused with more than ten cases available.
C3_Witness ==
    /\ BareLoad
    /\ MatchCount(last.arg) = 0
    /\ Failed
    /\ last.result.msg = "unknown"
    /\ Len(last.result.detail) = 10
    /\ Cardinality(AvailableNames) > 10

\* C4: load of a bare name with exactly one bundled match and no remote
\* match returns the bundle of that directory: the requested name, not
\* remote, the manifest parsed when manifest.toml is there and inferred
\* otherwise, and nothing downloaded.
C4_SingleBundledMatch ==
    (/\ BareLoad
     /\ Cardinality(BundledLocations(last.arg)) = 1
     /\ RemoteLocations(last.arg) = {})
    => LET p == CHOOSE q \in BundledLocations(last.arg) : TRUE
       IN /\ Returned
          /\ last.result.value.name = last.arg
          /\ last.result.value.dir = Path("CASES_DIR", p)
          /\ last.result.value.is_remote = FALSE
          /\ last.result.value.manifest =
                [how |-> IF tree[p] = "manifest" THEN "parsed" ELSE "inferred",
                 of |-> Path("CASES_DIR", p)]
          /\ last.calls = <<>>
          /\ cached = last.before

\* A single bundled case without manifest.toml was loaded, another with.
C4_Witness ==
    /\ BareLoad
    /\ Cardinality(BundledLocations(last.arg)) = 1
    /\ RemoteLocations(last.arg) = {}
    /\ Returned
    /\ last.result.value.manifest.how = "inferred"

\* C7: two consecutive load(x) calls, nothing in between, have the same
\* outcome: both fail with the same kind of error, or both return bundles
\* with the same name, directory, is_remote flag and manifest.
C7_ConsecutiveLoadsAgree ==
    [][(last.op = "load" /\ last'.op = "load" /\ last'.arg = last.arg) =>
          IF last.result.kind = "raise"
          THEN /\ last'.result.kind = "raise"
               /\ last'.result.exc = last.result.exc
               /\ last'.result.msg = last.result.msg
          ELSE /\ last'.result.kind = "ok"
               /\ last'.result.value = last.result.value]_vars

\* C8: after a successful download(name) the case is cached and its
\* directory is the one of that name under the current cache root; after
\* clear(name) it is not cached; a load of the name that follows the clear
\* and returns the remote case has downloaded it again, and one that
\* returns anything else returns a local or bundled directory of that path
\* and downloads nothing.
C8_CacheRoundTrip ==
    /\ (last.op = "download" /\ Returned) =>
          /\ is_case_cached(cached, cacheRoot, last.arg)
          /\ last.result.value = get_cached_case_dir(cacheRoot, last.arg)
          /\ last.result.value.root = cacheRoot
          /\ last.arg \in cached[cacheRoot]
    /\ (last.op = "clear" /\ last.arg # NoneVal) =>
          ~is_case_cached(cached, cacheRoot, last.arg)
    /\ (/\ last.op = "load"
        /\ last.prev # <<>>
        /\ last.prev[1].op = "clear"
        /\ is_remote_case(registry, last.arg)
        /\ Returned) =>
          IF last.result.value.is_remote
          THEN /\ last.calls = <<"is_case_cached", "download", "get_cached_case_dir">>
               /\ is_case_cached(cached, cacheRoot, last.arg)
               /\ last.result.value.dir = get_cached_case_dir(cacheRoot, last.arg)
          ELSE /\ last.calls = <<>>
               /\ cached = last.before
               /\ \/ LocalIsDir(last.before, last.arg)
                  \/ BundledIsDir(tree, Split(last.arg))

\* A case was downloaded, cleared, and loaded again from the registry.
C8_Witness ==
    /\ last.op = "load"
    /\ last.prev # <<>>
    /\ last.prev[1].op = "clear"
    /\ last.prev[1].was_cached
    /\ Returned
    /\ last.result.value.is_remote
    /\ "download" \in Range(last.calls)

\* C8 as first stated: whatever else carries the name, a load of a registry
\* name that follows its clear and returns has downloaded the case.
C8_LoadAfterClearDownloads ==
    (/\ last.op = "load"
     /\ last.prev # <<>>
     /\ last.prev[1].op = "clear"
     /\ is_remote_case(registry, last.arg)
     /\ Returned) => "download" \in Range(last.calls)

(***************************************************************************)
(* The validator on its own: every short string, and the documented        *)
(* examples                                                                *)
(***************************************************************************)

S_dotdot_etc == <<".", ".", "/", "e", "t", "c">>
S_a_b == <<"a", "/", "b">>
S_abs == <<"/", "a", "b", "s">>
S_ieee14 == <<"i", "e", "e", "e", "1", "4">>

ValidateInputs == BoundedStrings \cup {S_dotdot_etc, S_a_b, S_abs, S_ieee14}

\* No bundled case, no registry entry, an empty cache.
EmptyEnvironment ==
    /\ tree = [p \in Candidates |-> "absent"]
    /\ registry = <<>>
    /\ cacheRoot = "home"
    /\ cached = [r \in CacheRoots |-> {}]

InitValidate ==
    /\ EmptyEnvironment
    /\ last \in {[op |-> "call", arg |-> component] : component \in ValidateInputs}

\* _validate_path_component(component)
Validate ==
    /\ last.op = "call"
    /\ last' = [op |-> "validate", arg |-> last.arg,
                result |-> _validate_path_component(last.arg)]
    /\ UNCHANGED <<tree, registry, cacheRoot, cached>>

SpecValidate == InitValidate /\ [][Validate]_vars

\* A drive-letter prefix: a letter, then a colon.
DriveLetterPattern(s) == Len(s) >= 2 /\ IsLetter(s[1]) /\ s[2] = ":"

UnsafeText(s) ==
    \/ s = <<>>
    \/ Contains(s, <<".", ".">>)
    \/ Contains(s, <<"/">>)
    \/ Contains(s, <<"\\">>)
    \/ StartsWith(s, <<"/">>)

\* C5 as stated: the validator fails exactly on the empty string, on "..",
\* on a path separator, on a leading "/" and on a drive-letter prefix.
C5_FailsIffUnsafeOrDriveLetter ==
    last.op = "validate" =>
        (Failed <=> (UnsafeText(last.arg) \/ DriveLetterPattern(last.arg)))

\* C5 (amended): the validator fails exactly on the empty string, on "..",
\* on a path separator, on a leading "/" and on any string whose second
\* character is a colon, whatever the first; it rejects "../etc", "a/b",
\* "/abs", accepts "ieee14", and changes nothing but its result.
C5_FailsIffUnsafeOrSecondColon ==
    /\ last.op = "validate" =>
          /\ Failed <=> (UnsafeText(last.arg) \/ (Len(last.arg) >= 2 /\ last.arg[2] = ":"))
          /\ Failed => last.result.exc = "ValueError"
          /\ last.arg \in {S_dotdot_etc, S_a_b, S_abs} => Failed
          /\ last.arg = S_ieee14 => Returned
    /\ EmptyEnvironment

\* A colon in second place after a digit was refused.
C5_Witness ==
    /\ last.op = "validate"
    /\ last.arg = <<"1", ":">>
    /\ Failed
    /\ last.result.msg = "absolute"

(***************************************************************************)
(* _is_safe_subpath on a filesystem with symbolic links                    *)
(***************************************************************************)

\* Absolute paths are sequences of names; "NUL" stands for a name that
\* holds a NUL character.
A_root == <<"root">>
A_in == <<"root", "in">>
A_in_f == <<"root", "in", "f">>
A_ln == <<"root", "ln">>
A_ln_f == <<"root", "ln", "f">>
A_ln2 == <<"root", "ln2">>
A_gone == <<"root", "gone">>
A_out == <<"out">>
A_out_gone == <<"out", "gone">>
A_nul == <<"root", "NUL">>

\* Where the two symbolic links of the filesystem may point; A_gone and
\* A_out_gone do not exist (a broken link).
LinkTargets == {A_in, A_gone, A_out, A_out_gone, A_ln, A_ln2}
LinkSets ==
    {[q \in {A_ln} |-> target] : target \in LinkTargets}
    \cup {[q \in {A_ln, A_ln2} |-> IF q = A_ln THEN t1 ELSE t2] :
            t1 \in LinkTargets, t2 \in {A_ln, A_out, A_in}}

SafeChildren == {A_root, A_in, A_in_f, A_ln, A_ln_f, A_ln2, A_out, A_nul}
SafeParents == {A_root, A_in, A_ln}

\* os.path.realpath, not strict: the links are followed one component at a
\* time; a link met while it is being followed is a loop.
RECURSIVE RealPath(_, _, _, _)
RealPath(links, path, rest, active) ==
    IF rest = <<>> THEN [loop |-> FALSE, path |-> path]
    ELSE LET newpath == Append(path, Head(rest))
         IN IF newpath \in DOMAIN links
            THEN IF newpath \in active
                 THEN [loop |-> TRUE, path |-> newpath \o Tail(rest)]
                 ELSE LET target == RealPath(links, <<>>, links[newpath],
                                             active \cup {newpath})
                      IN IF target.loop
                         THEN [loop |-> TRUE, path |-> newpath \o Tail(rest)]
                         ELSE RealPath(links, target.path, Tail(rest), active)
            ELSE RealPath(links, newpath, Tail(rest), active)

\* Path.resolve(): ValueError on a NUL, OSError when the platform cannot
\* name the path (unreadable), and on a symbolic-link loop RuntimeError
\* before Python 3.13 (legacy) and the unresolved path from 3.13 on.
resolve(fs, p) ==
    IF "NUL" \in Range(p) THEN Raise("ValueError", "embedded null byte", <<>>, <<>>)
    ELSE IF p \in fs.unreadable THEN Raise("OSError", "unreadable", <<>>, <<>>)
    ELSE LET real == RealPath(fs.links, <<>>, p, {})
         IN IF real.loop /\ fs.legacy
            THEN Raise("RuntimeError", "Symlink loop", <<>>, <<>>)
            ELSE Ok(Path("/", real.path))

\* _is_safe_subpath(child, parent)
_is_safe_subpath(fs, child, parent) ==
    LET c == resolve(fs, child)
        p == resolve(fs, parent)
    IN IF c.kind = "raise"
       THEN IF c.exc \in {"ValueError", "OSError"} THEN Ok(FALSE) ELSE c
       ELSE IF p.kind = "raise"
       THEN IF p.exc \in {"ValueError", "OSError"} THEN Ok(FALSE) ELSE p
       ELSE Ok(is_relative_to(c.value, p.value))

FileSystems ==
    {[links |-> l, unreadable |-> u, legacy |-> v] :
        l \in LinkSets, u \in {{}, {A_in}}, v \in BOOLEAN}

InitSafe ==
    /\ EmptyEnvironment
    /\ last \in {[op |-> "call", fs |-> fs, child |-> c, parent |-> p] :
                    fs \in FileSystems, c \in SafeChildren, p \in SafeParents}

IsSafeSubpath ==
    /\ last.op = "call"
    /\ last' = [op |-> "_is_safe_subpath", fs |-> last.fs, child |-> last.child,
                parent |-> last.parent,
                result |-> _is_safe_subpath(last.fs, last.child, last.parent)]
    /\ UNCHANGED <<tree, registry, cacheRoot, cached>>

SpecSafe == InitSafe /\ [][IsSafeSubpath]_vars

\* Resolving the path fails: a NUL, an unreadable path, a link loop where
\* the interpreter reports one.
ResolutionErrors(fs, p) ==
    \/ "NUL" \in Range(p)
    \/ p \in fs.unreadable
    \/ fs.legacy /\ RealPath(fs.links, <<>>, p, {}).loop

\* Where the path really lies, when resolving it does not fail.
Physical(fs, p) == RealPath(fs.links, <<>>, p, {}).path

IsPrefix(a, b) == Len(a) <= Len(b) /\ SubSeq(b, 1, Len(a)) = a

\* C6: _is_safe_subpath never raises; it returns true only if the resolved
\* child is the resolved parent or below it, false for a link inside the
\* parent that points outside it, and false whenever resolving either path
\* fails.
C6_SafeSubpathNeverRaises ==
    last.op = "_is_safe_subpath" =>
        /\ Returned
        /\ last.result.value = TRUE =>
              /\ ~ResolutionErrors(last.fs, last.child)
              /\ ~ResolutionErrors(last.fs, last.parent)
              /\ IsPrefix(Physical(last.fs, last.parent), Physical(last.fs, last.child))
        /\ (/\ last.child = A_ln
            /\ last.parent = A_root
            /\ last.fs.links[A_ln] \in {A_out, A_out_gone})
           => last.result.value = FALSE
        /\ (ResolutionErrors(last.fs, last.child) \/ ResolutionErrors(last.fs, last.parent))
           => last.result.value = FALSE

(***************************************************************************)
(* File lookup: file()                                                     *)
(***************************************************************************)

F_raw == <<"r", "a", "w">>
F_dyr == <<"d", "y", "r">>
F_psse_raw == <<"p", "s", "s", "e", "_", "r", "a", "w">>
F_psse_dyr == <<"p", "s", "s", "e", "_", "d", "y", "r">>
F_matpower == <<"m", "a", "t", "p", "o", "w", "e", "r">>
V_33 == <<"3", "3">>
V_34 == <<"3", "4">>
Var_genrou == <<"g", "e", "n", "r", "o", "u">>
Var_gencls == <<"g", "e", "n", "c", "l", "s">>

\* FileEntry(path, format, format_version, variant, default)
FileEntry(path, format, format_version, variant, default) ==
    [path |-> path, format |-> format, format_version |-> format_version,
     variant |-> variant, default |-> default]

\* None where a FileEntry is expected.
NoEntry == FileEntry(NoneVal, NoneVal, NoneVal, NoneVal, FALSE)

\* Manifest: the files in order.  `exact` records how a lookup treats a
\* version or variant that was not requested: the entry must have none, or
\* the entry may have any.
Manifest(files, exact) == [files |-> files, exact |-> exact]

\* The first of the entries found, or None.
FirstOf(hits) == IF hits = <<>> THEN NoEntry ELSE hits[1]

\* file_entry: the first entry of the format whose version and variant are
\* the requested ones.
file_entry(m, format, format_version, variant) ==
    FirstOf(SelectSeq(m.files, LAMBDA f :
        /\ f.format = format
        /\ IF format_version # NoneVal THEN f.format_version = format_version
           ELSE m.exact => f.format_version = NoneVal
        /\ IF variant # NoneVal THEN f.variant = variant
           ELSE m.exact => f.variant = NoneVal))

\* get_default_file: the entry of the format marked default, or, when none
\* is marked, the first entry of the format.
get_default_file(m, format) ==
    LET marked == FirstOf(SelectSeq(m.files, LAMBDA f : f.format = format /\ f.default))
    IN IF marked # NoEntry THEN marked
       ELSE FirstOf(SelectSeq(m.files, LAMBDA f : f.format = format))

RECURSIVE Distinct(_)
Distinct(seq) ==
    IF seq = <<>> THEN <<>>
    ELSE LET rest == Distinct(SubSeq(seq, 1, Len(seq) - 1))
         IN IF seq[Len(seq)] \in Range(rest) THEN rest ELSE Append(rest, seq[Len(seq)])

\* formats / variants of the manifest module
_formats(m) == Distinct([i \in 1..Len(m.files) |-> m.files[i].format])
_variants(m, format) ==
    LET of_format == SelectSeq(m.files, LAMBDA f : f.format = format /\ f.variant # NoneVal)
    IN Distinct([i \in 1..Len(of_format) |-> of_format[i].variant])

\* A normalisation that forgets the "raw" alias.
NormalizeFormatDyrOnly(format) ==
    IF format = F_dyr THEN F_psse_dyr ELSE format

\* _normalize_format
_normalize_format(format) ==
    IF format = F_raw THEN F_psse_raw
    ELSE IF format = F_dyr THEN F_psse_dyr
    ELSE format

\* formats(case) / variants(case, format)
formats(case) == _formats(case.manifest)
variants(case, format) == _variants(case.manifest, _normalize_format(format))

\* str(Path(case.dir) / entry.path)
JoinPath(dir, path) == <<dir, path>>

\* What file() did: its result and its lookups in the manifest, in order.
Looked(fn, format) == [fn |-> fn, format |-> format]

\* A lookup that falls back to the default entry whatever was requested.
FileAlwaysFallsBack(case, format, format_version, variant, required) ==
    LET actual_format == _normalize_format(format)
        first == file_entry(case.manifest, actual_format, format_version, variant)
        entry == IF first = NoEntry
                 THEN get_default_file(case.manifest, actual_format) ELSE first
        calls == <<Looked("file_entry", actual_format)>>
                 \o (IF first = NoEntry
                     THEN <<Looked("get_default_file", actual_format)>> ELSE <<>>)
    IN IF entry = NoEntry
       THEN IF required
            THEN [result |-> Raise("FileNotFoundError", "format", format, formats(case)),
                  calls |-> calls]
            ELSE [result |-> Ok(NoneVal), calls |-> calls]
       ELSE [result |-> Ok(JoinPath(case.dir, entry.path)), calls |-> calls]

\* file(case, format, format_version, variant, required)
file(case, format, format_version, variant, required) ==
    LET actual_format == _normalize_format(format)
        first == file_entry(case.manifest, actual_format, format_version, variant)
        fallback == first = NoEntry /\ variant = NoneVal /\ format_version = NoneVal
        entry == IF fallback THEN get_default_file(case.manifest, actual_format) ELSE first
        calls == <<Looked("file_entry", actual_format)>>
                 \o (IF fallback THEN <<Looked("get_default_file", actual_format)>> ELSE <<>>)
    IN IF entry = NoEntry
       THEN IF required
            THEN [result |->
                     IF variant # NoneVal
                     THEN Raise("FileNotFoundError", "variant", format, variants(case, actual_format))
                     ELSE IF format_version # NoneVal
                     THEN Raise("FileNotFoundError", "version", format, formats(case))
                     ELSE Raise("FileNotFoundError", "format", format, formats(case)),
                  calls |-> calls]
            ELSE [result |-> Ok(NoneVal), calls |-> calls]
       ELSE [result |-> Ok(JoinPath(case.dir, entry.path)), calls |-> calls]

\* The most files a manifest lists here.
MaxFiles == 2

\* The entries a manifest may list; each has its own path.
EntryPool ==
    {FileEntry(<<"f">> \o k[1] \o k[2] \o k[3] \o (IF d THEN <<"*">> ELSE <<>>),
               k[1], k[2], k[3], d) :
        k \in {<<F_psse_raw, NoneVal, NoneVal>>, <<F_psse_raw, V_33, NoneVal>>,
               <<F_psse_raw, NoneVal, Var_genrou>>,
               <<F_psse_dyr, NoneVal, NoneVal>>, <<F_psse_dyr, NoneVal, Var_genrou>>},
        d \in BOOLEAN}

Manifests ==
    {Manifest(files, exact) :
        files \in UNION {[1..n -> EntryPool] : n \in 0..MaxFiles}, exact \in BOOLEAN}

FileFormats == {F_raw, F_dyr, F_psse_raw, F_psse_dyr, F_matpower}
FileVersions == {NoneVal, V_33, V_34}
FileVariants == {NoneVal, Var_genrou, Var_gencls}

InitFile ==
    /\ EmptyEnvironment
    /\ last \in {[op |-> "bundle", case |-> CaseBundle(S_x, <<"D">>, m, FALSE)] :
                    m \in Manifests}

File ==
    /\ last.op = "bundle"
    /\ \E format \in FileFormats, format_version \in FileVersions,
          variant \in FileVariants, required \in BOOLEAN :
         \E r \in {file(last.case, format, format_version, variant, required)} :
            last' = [op |-> "file", case |-> last.case, format |-> format,
                     format_version |-> format_version, variant |-> variant,
                     required |-> required, result |-> r.result, calls |-> r.calls]
    /\ UNCHANGED <<tree, registry, cacheRoot, cached>>

SpecFile == InitFile /\ [][File]_vars

\* The same returned path, both None, or both FileNotFoundError.
SameFileOutcome(a, b) ==
    /\ a.kind = b.kind
    /\ a.kind = "ok" => a.value = b.value
    /\ a.kind = "raise" => a.exc = "FileNotFoundError" /\ b.exc = "FileNotFoundError"

\* C9: file(bundle, "raw", ...) has the outcome of file(bundle, "psse_raw",
\* ...) and file(bundle, "dyr", ...) that of file(bundle, "psse_dyr", ...),
\* whatever the version, variant and required; any other format is looked
\* up under its own name.
C9_AliasNormalization ==
    last.op = "file" =>
        LET canonical == IF last.format = F_raw THEN F_psse_raw
                         ELSE IF last.format = F_dyr THEN F_psse_dyr
                         ELSE last.format
        IN /\ SameFileOutcome(last.result,
                  file(last.case, canonical, last.format_version, last.variant,
                       last.required).result)
           /\ \A i \in 1..Len(last.calls) : last.calls[i].format = canonical
           /\ Len(last.calls) >= 1

\* file(bundle, "raw") returned the path of a psse_raw entry.
C9_Witness ==
    /\ last.op = "file"
    /\ last.format = F_raw
    /\ last.result.kind = "ok"
    /\ \E i \in 1..Len(last.case.manifest.files) :
          /\ last.case.manifest.files[i].format = F_psse_raw
          /\ last.result.value = JoinPath(last.case.dir, last.case.manifest.files[i].path)

\* The entries of the looked-up format that have the given version / variant.
WithVersion(m, format, format_version) ==
    {i \in 1..Len(m.files) :
        m.files[i].format = format /\ m.files[i].format_version = format_version}
WithVariant(m, format, variant) ==
    {i \in 1..Len(m.files) : m.files[i].format = format /\ m.files[i].variant = variant}

\* C10: with no entry matching the request, and a version or variant
\* requested or no default entry for the format, file() returns None when
\* required is false and raises FileNotFoundError when it is true; the
\* default entry is looked up only when neither version nor variant was
\* requested; a request naming a variant or version no entry of the format
\* has never returns a path.
C10_NoFallbackForVersionOrVariant ==
    last.op = "file" =>
        LET m == last.case.manifest
            actual == _normalize_format(last.format)
            requested == last.format_version # NoneVal \/ last.variant # NoneVal
            path_returned == last.result.kind = "ok" /\ last.result.value # NoneVal
        IN /\ (/\ file_entry(m, actual, last.format_version, last.variant) = NoEntry
               /\ requested \/ get_default_file(m, actual) = NoEntry)
              => IF last.required
                 THEN last.result.kind = "raise" /\ last.result.exc = "FileNotFoundError"
                 ELSE last.result = Ok(NoneVal)
           /\ (\E i \in 1..Len(last.calls) : last.calls[i].fn = "get_default_file")
              => ~requested
           /\ (\/ last.variant # NoneVal /\ WithVariant(m, actual, last.variant) = {}
               \/ last.format_version # NoneVal
                  /\ WithVersion(m, actual, last.format_version) = {})
              => ~path_returned

\* A variant no entry has was requested, with required false, of a format
\* that has a default entry: None came back.
C10_Witness ==
    /\ last.op = "file"
    /\ last.variant = Var_gencls
    /\ ~last.required
    /\ get_default_file(last.case.manifest, _normalize_format(last.format)) # NoEntry
    /\ last.result = Ok(NoneVal)

(***************************************************************************)
(* Export: export_case()                                                   *)
(*                                                                         *)
(* The working directory is a tree of directories and sized files, each    *)
(* named by its path below the working directory.  Directories of the      *)
(* package and of the cache hold fixed files.                              *)
(***************************************************************************)

S_w == <<"w">>
S_out == <<"o", "u", "t">>
S_dot == <<".">>
N_f == <<"f">>
N_g == <<"g">>
N_s == <<"s">>
N_old == <<"o", "l", "d">>
N_manifest == <<"m", "a", "n", "i", "f", "e", "s", "t", ".", "t", "o", "m", "l">>

SizedFile(path, size) == [path |-> path, size |-> size]

\* p lies at or below prefix; its path relative to prefix.
Under(prefix, p) == Len(prefix) <= Len(p) /\ SubSeq(p, 1, Len(prefix)) = prefix
Rel(prefix, p) == SubSeq(p, Len(prefix) + 1, Len(p))

\* "a/b/c" for <<a, b, c>>
RECURSIVE JoinParts(_)
JoinParts(parts) ==
    IF Len(parts) = 0 THEN <<>>
    ELSE IF Len(parts) = 1 THEN parts[1]
    ELSE parts[1] \o <<"/">> \o JoinParts(Tail(parts))

\* The cache as load() sees it, with the directories of the working
\* directory where Path(name_or_path).is_dir() looks for them.
WithWorkingDir(c, fs) ==
    [c EXCEPT !["cwd"] = @ \cup {JoinParts(d) : d \in fs.dirs \ {<<>>}}]

\* The files of a directory outside the working directory.
PackagedFiles(t, dir) ==
    {SizedFile(<<N_f>>, Len(dir.parts)), SizedFile(<<N_s, N_g>>, 2)}
    \cup (IF \/ dir.root = "CASES_DIR" /\ dir.parts \in Candidates /\ t[dir.parts] = "manifest"
             \/ dir.root \in CacheRoots /\ Len(dir.parts) > 1
          THEN {SizedFile(<<N_manifest>>, 3)} ELSE {})
PackagedDirs == {<<>>, <<N_s>>}

\* os.walk(case_path): the files below a directory, by relative path, and
\* its directories.
WalkFiles(t, fs, dir) ==
    IF dir.root = "cwd"
    THEN {SizedFile(Rel(dir.parts, f.path), f.size) :
             f \in {g \in fs.files : Under(dir.parts, g.path)}}
    ELSE PackagedFiles(t, dir)
WalkDirs(fs, dir) ==
    IF dir.root = "cwd"
    THEN {Rel(dir.parts, d) : d \in {e \in fs.dirs : Under(dir.parts, e)}}
    ELSE PackagedDirs

\* Path.exists() / Path.is_dir() in the working directory
FsExists(fs, parts) == parts \in fs.dirs \/ \E f \in fs.files : f.path = parts
FsIsDir(fs, parts) == parts \in fs.dirs

\* shutil.rmtree(dest_dir)
rmtree(fs, parts) ==
    [dirs |-> {d \in fs.dirs : ~Under(parts, d)},
     files |-> {f \in fs.files : ~Under(parts, f.path)}]

\* shutil.copytree(case_path, dest_dir): the source is listed, the
\* destination and its parents are made, the listed entries are copied.
copytree(t, fs, src, dst) ==
    [dirs |-> fs.dirs \cup {SubSeq(dst, 1, n) : n \in 0..Len(dst)}
                      \cup {dst \o d : d \in WalkDirs(fs, src)},
     files |-> fs.files \cup {SizedFile(dst \o f.path, f.size) : f \in WalkFiles(t, fs, src)}]

Exported(result, c, fs, case) == [result |-> result, cached |-> c, fs |-> fs, case |-> case]

\* An export that replaces the destination whether or not overwrite is set.
ExportAlwaysOverwrites(t, reg, c, root, fs, case_name, dest, overwrite, order) ==
    LET loaded == load(t, reg, WithWorkingDir(c, fs), root, case_name, order)
        c2 == [loaded.cached EXCEPT !["cwd"] = c["cwd"]]
    IN IF loaded.result.kind = "raise" THEN Exported(loaded.result, c2, fs, loaded.result)
       ELSE LET case == loaded.result.value
                dest_dir == PathParts(dest) \o <<case.name>>
                fs1 == IF FsIsDir(fs, dest_dir) THEN rmtree(fs, dest_dir) ELSE fs
            IN IF case.dir.root = "cwd" /\ ~FsIsDir(fs1, case.dir.parts)
               THEN Exported(Raise("FileNotFoundError", "copytree", case.name, <<>>),
                             c2, fs1, loaded.result)
               ELSE Exported(Ok(Path("cwd", dest_dir)), c2,
                             copytree(t, fs1, case.dir, dest_dir), loaded.result)

\* export_case(case_name, dest, overwrite)
export_case(t, reg, c, root, fs, case_name, dest, overwrite, order) ==
    LET loaded == load(t, reg, WithWorkingDir(c, fs), root, case_name, order)
        c2 == [loaded.cached EXCEPT !["cwd"] = c["cwd"]]
    IN IF loaded.result.kind = "raise" THEN Exported(loaded.result, c2, fs, loaded.result)
       ELSE LET case == loaded.result.value
                dest_dir == PathParts(dest) \o <<case.name>>
            IN IF FsExists(fs, dest_dir) /\ ~overwrite
               THEN Exported(Raise("FileExistsError", "exists", case.name, <<>>),
                             c2, fs, loaded.result)
               ELSE IF FsExists(fs, dest_dir) /\ ~FsIsDir(fs, dest_dir)
               THEN Exported(Raise("NotADirectoryError", "rmtree", case.name, <<>>),
                             c2, fs, loaded.result)
               ELSE LET fs1 == IF FsExists(fs, dest_dir) THEN rmtree(fs, dest_dir) ELSE fs
                    IN IF case.dir.root = "cwd" /\ ~FsIsDir(fs1, case.dir.parts)
                       THEN Exported(Raise("FileNotFoundError", "copytree", case.name, <<>>),
                                     c2, fs1, loaded.result)
                       ELSE Exported(Ok(Path("cwd", dest_dir)), c2,
                                     copytree(t, fs1, case.dir, dest_dir), loaded.result)

\* The working directory at the start: a local case directory w; also an
\* earlier export out/x with a file the package does not have; also a
\* plain file named x.
WorkingDirs ==
    LET base == [dirs |-> {<<>>, <<S_w>>, <<S_w, N_s>>},
                 files |-> {SizedFile(<<S_w, N_f>>, 1), SizedFile(<<S_w, N_s, N_g>>, 2)}]
    IN {base,
        [dirs |-> base.dirs \cup {<<S_out>>, <<S_out, S_x>>},
         files |-> base.files \cup {SizedFile(<<S_out, S_x, N_old>>, 7)}],
        [dirs |-> base.dirs, files |-> base.files \cup {SizedFile(<<S_x>>, 1)}]}

\* The exports one process makes.
MaxExports == 2

ExportTrees ==
    {t \in Trees : /\ t[P_d] = "absent" /\ t[P_h] = "absent" /\ t[P_cy] = "absent"
                   /\ t[P_x] \in {"absent", "manifest"}
                   /\ t[P_c] # "escape" /\ t[P_cx] \in {"absent", "dir"}}
ExportRegistries == {<<>>, <<S_x>>}
ExportNames == {S_x, S_w, S_cx, S_z}
ExportDests == {S_dot, S_out, S_w}

InitExport ==
    /\ tree \in ExportTrees
    /\ registry \in ExportRegistries
    /\ cacheRoot = "home"
    /\ cached = [r \in CacheRoots |-> {}]
    /\ last \in {[op |-> "init", case_name |-> <<>>, dest |-> <<>>, overwrite |-> FALSE,
                  fs_before |-> fs, fs |-> fs, result |-> Ok("None"),
                  case |-> Ok("None"), repeated |-> FALSE, n |-> 0] : fs \in WorkingDirs}

ExportCase ==
    /\ last.n < MaxExports
    /\ \E case_name \in ExportNames, dest \in ExportDests, overwrite \in BOOLEAN,
       order \in Orders(tree) :
        \E r \in {export_case(tree, registry, cached, cacheRoot, last.fs,
                              case_name, dest, overwrite, order)} :
        /\ cached' = r.cached
        /\ last' = [op |-> "export_case", case_name |-> case_name, dest |-> dest,
                    overwrite |-> overwrite, fs_before |-> last.fs, fs |-> r.fs,
                    result |-> r.result, case |-> r.case,
                    repeated |-> /\ last.op = "export_case"
                                 /\ last.case_name = case_name
                                 /\ last.dest = dest
                                 /\ last.result.kind = "ok",
                    n |-> last.n + 1]
    /\ UNCHANGED <<tree, registry, cacheRoot>>

SpecExport == InitExport /\ [][ExportCase]_vars

\* The destination directory of the last export: dest / case.name.
DestDir == PathParts(last.dest) \o <<last.case.value.name>>

\* The last call was an export whose case was found.
ExportOfFoundCase == last.op = "export_case" /\ last.case.kind = "ok"

RefusedAsExisting ==
    /\ last.result.kind = "raise"
    /\ last.result.exc = "FileExistsError"
    /\ last.fs = last.fs_before

\* C11: export_case without overwrite fails with FileExistsError whenever
\* dest/case.name exists, and leaves the working directory as it was; an
\* export repeated with the same case and destination, without overwrite,
\* fails that way.
C11_ExistingDestinationRefused ==
    /\ (ExportOfFoundCase /\ ~last.overwrite /\ FsExists(last.fs_before, DestDir))
          => RefusedAsExisting
    /\ (last.op = "export_case" /\ last.repeated /\ ~last.overwrite)
          => ExportOfFoundCase /\ RefusedAsExisting

\* An export that succeeded was repeated without overwrite and refused, the
\* destination holding files.
C11_Witness ==
    /\ ExportOfFoundCase
    /\ last.repeated
    /\ ~last.overwrite
    /\ RefusedAsExisting
    /\ WalkFiles(tree, last.fs, Path("cwd", DestDir)) # {}

\* C12: after a successful export the files under dest/case.name, by
\* relative path and size, are exactly those under the source directory,
\* nothing of an earlier destination survives, and the source directory is
\* as it was before the call.
C12_ExportMirrorsSource ==
    (ExportOfFoundCase /\ last.result.kind = "ok") =>
        LET src == last.case.value.dir
            dst == Path("cwd", DestDir)
        IN /\ last.result.value = dst
           /\ WalkFiles(tree, last.fs, dst) = WalkFiles(tree, last.fs, src)
           /\ WalkFiles(tree, last.fs, dst) = WalkFiles(tree, last.fs_before, src)
           /\ WalkFiles(tree, last.fs, src) = WalkFiles(tree, last.fs_before, src)
           /\ WalkDirs(last.fs, src) = WalkDirs(last.fs_before, src)

(***************************************************************************)
(* Listing: cases() on its own                                             *)
(***************************************************************************)

S_c == <<"c">>
S_d == <<"d">>
S_r == <<"r">>
S_h == <<".", "h">>
S_q == <<"q">>
T_t == <<"t">>
T_b == <<"b">>

CollectionFilters == {NoneVal, S_c, S_d, S_r, S_h, S_q}
TagFilters == {NoneVal, T_t, T_b}

\* What an earlier process left in the cache.
CachesFound == {[r \in CacheRoots |-> IF r = "home" THEN names ELSE {}] :
                   names \in SUBSET {S_x, S_y}}

InitCases ==
    /\ tree \in Trees
    /\ registry \in Registries
    /\ cacheRoot = "home"
    /\ cached \in CachesFound
    /\ last = [op |-> "init"]

\* cases(collection, tag)
Cases ==
    /\ last.op = "init"
    /\ \E collection \in CollectionFilters, tag \in TagFilters, order \in Orders(tree) :
         last' = [op |-> "cases", collection |-> collection, tag |-> tag, order |-> order,
                  result |-> cases(tree, registry, cached, cacheRoot, order, collection, tag)]
    /\ UNCHANGED <<tree, registry, cacheRoot, cached>>

SpecCases == InitCases /\ [][Cases]_vars

IsSortedStrict(seq) == \A i, j \in 1..Len(seq) : i < j => StrLess(seq[i], seq[j])

\* The bundled directories whose parent directory is named C.
BundledUnder(C) == {p \in Candidates : Len(p) = 2 /\ p[1] = C /\ tree[p] # "absent"}

\* The registry entries C/name.
RemoteUnder(C) ==
    {i \in 1..Len(registry) : Contains(registry[i], <<"/">>) /\ Split(registry[i])[1] = C}

\* Every place a case name is found: bundled directories, registry, cache.
PlacesNamed(name) ==
    {<<"bundled", p>> : p \in {q \in Candidates : q[Len(q)] = name /\ tree[q] # "absent"}}
    \cup {<<"remote", i>> : i \in RemoteLocations(name)}
    \cup {<<"cached", e>> : e \in {f \in cached[cacheRoot] : f = name}}

Discoveries ==
    ManifestEntries(tree, last.order) \o InferredEntries(tree, last.order)
        \o RemoteEntries(registry) \o CachedEntries(cached, cacheRoot)

\* The first discovery of a name.
FirstSeen(name) ==
    Discoveries[CHOOSE i \in 1..Len(Discoveries) :
                    /\ Discoveries[i][1] = name
                    /\ \A j \in 1..(i - 1) : Discoveries[j][1] # name]

\* C14: cases() lists, sorted and once each, the discovered names whose
\* first discovery has the requested collection and tag: a later discovery
\* of the same name never replaces the first.
C14_FirstSeenWins ==
    last.op = "cases" =>
        /\ IsSortedStrict(last.result)
        /\ Range(last.result) =
              {name \in {Discoveries[i][1] : i \in 1..Len(Discoveries)} :
                  /\ last.collection = NoneVal \/ FirstSeen(name)[2] = last.collection
                  /\ last.tag = NoneVal \/ last.tag \in Range(FirstSeen(name)[3])}

(***************************************************************************)
(* Listing: collections()                                                  *)
(***************************************************************************)

N_k == <<"k">>
N_hidden_k == <<".", "k">>
N_collection_toml ==
    <<"c", "o", "l", "l", "e", "c", "t", "i", "o", "n", ".", "t", "o", "m", "l">>

\* An entry of a directory: its name and whether Path.is_dir() holds.
DirEntry(name, is_dir) == [name |-> name, is_dir |-> is_dir]

\* What a top-level directory may hold besides collection.toml: a case
\* directory, a hidden directory, a file.
SubEntries == {DirEntry(N_k, TRUE), DirEntry(N_hidden_k, TRUE), DirEntry(N_f, FALSE)}

\* An entry of CASES_DIR: absent, a file, or a directory with its entries;
\* collection.toml is absent, a file, or (oddly) a directory.
TopEntries ==
    {[kind |-> "absent", toml |-> "none", subs |-> {}],
     [kind |-> "file", toml |-> "none", subs |-> {}]}
    \cup {[kind |-> "dir", toml |-> toml, subs |-> subs] :
             toml \in {"none", "file", "dir"}, subs \in SUBSET SubEntries}

TopLevelNames == {S_c, S_h, S_x}

\* entry.iterdir()
IterDir(e) ==
    e.subs \cup (IF e.toml = "none" THEN {}
                 ELSE {DirEntry(N_collection_toml, e.toml = "dir")})

\* A listing that takes every non-hidden top-level directory for a collection.
CollectionsEveryDirectory(listing, order) ==
    Sorted({order[i] : i \in {j \in 1..Len(order) :
                /\ listing[order[j]].kind = "dir"
                /\ ~StartsWith(order[j], <<".">>)}})

\* The loop of collections() over CASES_DIR.iterdir().
RECURSIVE CollectionsLoop(_, _, _)
CollectionsLoop(listing, order, result) ==
    IF order = <<>> THEN result
    ELSE LET entry == Head(order)
             e == listing[entry]
             add == /\ e.kind = "dir"
                    /\ ~StartsWith(entry, <<".">>)
                    /\ IF e.toml = "file" THEN TRUE
                       ELSE \E sub \in IterDir(e) :
                               ~StartsWith(sub.name, <<".">>) /\ sub.is_dir
         IN CollectionsLoop(listing, Tail(order),
                            IF add THEN result \cup {entry} ELSE result)

\* collections()
collections(listing, order) == Sorted(CollectionsLoop(listing, order, {}))

\* CASES_DIR.iterdir() of a listing: the entries present, in some order.
ListingOrders(listing) ==
    LET present == {n \in TopLevelNames : listing[n].kind # "absent"}
    IN {o \in [1..Cardinality(present) -> present] :
            \A i, j \in DOMAIN o : i # j => o[i] # o[j]}

InitCollections ==
    /\ EmptyEnvironment
    /\ last \in {[op |-> "init", listing |-> l] : l \in [TopLevelNames -> TopEntries]}

Collections ==
    /\ last.op = "init"
    /\ \E order \in ListingOrders(last.listing) :
         last' = [op |-> "collections", listing |-> last.listing, order |-> order,
                  result |-> collections(last.listing, order)]
    /\ UNCHANGED <<tree, registry, cacheRoot, cached>>

SpecCollections == InitCollections /\ [][Collections]_vars

\* C15: collections() is the sorted list, without duplicates, of exactly
\* the non-hidden top-level directories that hold a collection.toml file or
\* a non-hidden subdirectory; a directory with neither, a hidden directory
\* and a top-level file are not in it.
C15_CollectionsListed ==
    last.op = "collections" =>
        /\ IsSortedStrict(last.result)
        /\ Range(last.result) =
              {n \in TopLevelNames :
                  /\ last.listing[n].kind = "dir"
                  /\ Head(n) # "."
                  /\ \/ last.listing[n].toml = "file"
                     \/ \E sub \in last.listing[n].subs : sub.is_dir /\ Head(sub.name) # "."
                     \/ last.listing[n].toml = "dir"}

\* Two collections were listed, one by its descriptor alone, beside a
\* directory holding only a file and a hidden directory that was left out.
C15_Witness ==
    /\ last.op = "collections"
    /\ last.result = <<S_c, S_x>>
    /\ last.listing[S_c].toml = "file" /\ last.listing[S_c].subs = {}
    /\ last.listing[S_h].kind = "dir" /\ last.listing[S_h].toml = "file"

(***************************************************************************)
(* Further properties of the resolver (specification Spec)                 *)
(***************************************************************************)

CASES_DIR_NAME == <<"c", "a", "s", "e", "s">>

\* manifest.collection: none of the bundled manifests declares one, and an
\* inferred manifest has none.
ManifestCollection(manifest) == NoneVal

\* CaseBundle.collection
collection(bundle) ==
    LET parent == PathParent(bundle.dir)
        parent_name == IF parent.parts = <<>> THEN CASES_DIR_NAME ELSE PathName(parent)
    IN IF ManifestCollection(bundle.manifest) # NoneVal
       THEN ManifestCollection(bundle.manifest)
       ELSE IF parent_name # CASES_DIR_NAME THEN parent_name ELSE NoneVal

\* The last call was load("C/name"), no local directory, of a case bundled
\* in the collection C alone: not at the top level, in no other collection,
\* not in the registry.
LoadOfSinglyBundledPath ==
    /\ last.op = "load"
    /\ ~Bare(last.arg)
    /\ ~LocalIsDir(last.before, last.arg)
    /\ Len(Split(last.arg)) = 2
    /\ BundledLocations(Split(last.arg)[2]) = {Split(last.arg)}
    /\ RemoteLocations(Split(last.arg)[2]) = {}

\* C16: for a case bundled in one collection C only, load("C/name") and
\* load("name") return the same bundle: the name, the directory C/name of
\* the bundled root, not remote, and the collection property C.
C16_PathAndNameAgree ==
    LoadOfSinglyBundledPath =>
        LET parts == Split(last.arg)
        IN /\ Returned
           /\ last.result.value.name = parts[2]
           /\ last.result.value.dir = Path("CASES_DIR", parts)
           /\ last.result.value.is_remote = FALSE
           /\ collection(last.result.value) = parts[1]
           /\ \A order \in Orders(tree) :
                 load(tree, registry, last.before, last.root, parts[2], order).result
                    = last.result

\* C17: a bundled bundle that load returns for an input that is no local
\* directory has a directory below CASES_DIR that, links resolved, lies
\* inside CASES_DIR, and every segment of the input passed
\* _validate_path_component.
C17_BundledStaysInsideRoot ==
    (/\ last.op = "load"
     /\ ~LocalIsDir(last.before, last.arg)
     /\ Returned
     /\ ~last.result.value.is_remote)
    => /\ last.result.value.dir.root = "CASES_DIR"
       /\ is_relative_to(BundledResolve(tree, last.result.value.dir.parts), CASES_DIR)
       /\ \A i \in 1..Len(Split(last.arg)) :
             _validate_path_component(Split(last.arg)[i]).kind = "ok"

\* C18: load("collection/case") with valid segments, no local directory,
\* no bundled directory collection/case and no registry entry of that path
\* fails with the unknown-case error, which quotes the input and lists
\* available names, not with the error for unsafe components.
C18_UnknownPathIsUnknownCase ==
    (/\ last.op = "load"
     /\ ~Bare(last.arg)
     /\ ~LocalIsDir(last.before, last.arg)
     /\ \A i \in 1..Len(Split(last.arg)) :
           _validate_path_component(Split(last.arg)[i]).kind = "ok"
     /\ ~BundledIsDir(tree, Split(last.arg))
     /\ ~is_remote_case(registry, last.arg))
    => /\ Failed
       /\ last.result.msg = "unknown"
       /\ last.result.subject = last.arg
       /\ Range(last.result.detail) \subseteq AvailableNames

\* The registry path the last load resolved remotely, if it did: the single
\* match of a bare name that is bundled nowhere, or a collection/case input
\* of valid segments that the registry holds and step 2 found no bundled
\* directory for inside CASES_DIR.
RemotePathResolved ==
    IF Bare(last.arg)
    THEN IF MatchCount(last.arg) = 1 /\ RemoteLocations(last.arg) # {}
         THEN registry[CHOOSE i \in RemoteLocations(last.arg) : TRUE] ELSE NoneVal
    ELSE IF /\ \A i \in 1..Len(Split(last.arg)) :
                  _validate_path_component(Split(last.arg)[i]).kind = "ok"
            /\ ~(/\ BundledIsDir(tree, Split(last.arg))
                 /\ is_relative_to(BundledResolve(tree, Split(last.arg)), CASES_DIR))
            /\ is_remote_case(registry, last.arg)
         THEN last.arg ELSE NoneVal

RemoteLoad ==
    /\ last.op = "load"
    /\ ~LocalIsDir(last.before, last.arg)
    /\ RemotePathResolved # NoneVal

\* C19: a load that resolves a remote case downloads once if the case was
\* not cached when the call began and not at all if it was, before it looks
\* up the cached directory and loads the manifest from it; the bundle is
\* remote, named by the trailing segment of the registry path, its
\* directory is the cached directory of the full path, and the case is
\* cached afterwards.
C19_DownloadOnMissOnly ==
    RemoteLoad =>
        LET path == RemotePathResolved
            hit == is_case_cached(last.before, last.root, path)
        IN /\ Returned
           /\ last.calls = IF hit THEN <<"is_case_cached", "get_cached_case_dir">>
                           ELSE <<"is_case_cached", "download", "get_cached_case_dir">>
           /\ last.result.value.is_remote
           /\ last.result.value.name = Split(path)[Len(Split(path))]
           /\ last.result.value.dir = get_cached_case_dir(last.root, path)
           /\ last.result.value.manifest.how =
                 (IF RemoteShipsManifest(path) THEN "parsed" ELSE "inferred")
           /\ is_case_cached(cached, last.root, path)
           /\ hit => cached = last.before

\* A bare name was resolved to its registry path from the cache, which the
\* load just before had filled.
C19_Witness ==
    /\ RemoteLoad
    /\ Bare(last.arg)
    /\ RemotePathResolved = S_cx
    /\ last.prev # <<>>
    /\ last.prev[1].op = "load"
    /\ last.prev[1].downloaded
    /\ last.calls = <<"is_case_cached", "get_cached_case_dir">>
    /\ Returned

(***************************************************************************)
(* Two processes on one cache root                                         *)
(*                                                                         *)
(* _load_remote_case is a sequence of separate cache and filesystem calls  *)
(* with no lock around them.  Each process runs load or clear one          *)
(* statement at a time; the statements of the two processes interleave     *)
(* freely.  The cache, the registry and the manifest reader are modelled   *)
(* from the specification.                                                 *)
(***************************************************************************)

Procs == {1, 2}
Other(p) == 3 - p

\* How many calls each process makes.
MaxCalls == 2

RaceNames == {S_cx, S_x}
RaceRoot == "home"

\* A download that is skipped when the case has meanwhile appeared.
DownloadUnlessPresent(c, root, name) ==
    IF is_case_cached(c, root, name) THEN [cached |-> c, invoked |-> FALSE]
    ELSE [cached |-> AfterDownload(c, root, name), invoked |-> TRUE]

\* _download_remote(name_or_path), called on the miss seen one statement ago
_download_remote(c, root, name) ==
    [cached |-> AfterDownload(c, root, name), invoked |-> TRUE]

\* The outcomes of reading the manifest of a remote case: manifest.toml was
\* seen and is parsed, or the directory is scanned.  A file or directory
\* that is gone fails the parse; a scan of a missing directory gives a
\* manifest or fails.
ManifestOutcomes(t, c, root, name, sawfile) ==
    LET directory == get_cached_case_dir(root, name)
        case_name == IF Contains(name, <<"/">>) THEN Split(name)[Len(Split(name))]
                     ELSE name
        bundle(m) == Ok(CaseBundle(case_name, directory, m, TRUE))
        error == Raise("ManifestError", "manifest", name, <<>>)
    IN IF sawfile
       THEN IF HasManifestFile(t, c, directory) THEN {bundle(parse_manifest(directory))}
            ELSE {error}
       ELSE IF is_case_cached(c, root, name) THEN {bundle(infer_manifest(directory))}
            ELSE {bundle(infer_manifest(directory)), error}

NoResult == Raise("", "none", <<>>, <<>>)

Idle(n) ==
    [pc |-> "idle", op |-> "none", name |-> <<>>, hit |-> FALSE, invoked |-> FALSE,
     sawfile |-> FALSE, cleared |-> FALSE, gone |-> FALSE, result |-> NoResult, n |-> n]

InitRace ==
    /\ tree \in {t \in Trees : \A d \in Candidates : t[d] = "absent"}
    /\ registry = <<S_cx, S_x>>
    /\ cacheRoot = RaceRoot
    /\ cached \in {[r \in CacheRoots |-> {}],
                   [r \in CacheRoots |-> IF r = RaceRoot THEN {S_cx} ELSE {}]}
    /\ last = [op |-> "race", proc |-> [p \in Procs |-> Idle(0)], doubled |-> FALSE]

Proc(p) == last.proc[p]
SetProc(p, rec) == [last EXCEPT !.proc[p] = rec]

\* A process calls load(name) or clear(name) of a remote case.
Begin(p) ==
    /\ Proc(p).pc = "idle"
    /\ Proc(p).n < MaxCalls
    /\ \E op \in {"load", "clear"}, name \in RaceNames :
          last' = SetProc(p, [Idle(Proc(p).n) EXCEPT
                                 !.pc = IF op = "load" THEN "check" ELSE "clear",
                                 !.op = op, !.name = name])
    /\ UNCHANGED <<tree, registry, cacheRoot, cached>>

\* if not is_case_cached(name_or_path):
CheckCached(p) ==
    /\ Proc(p).pc = "check"
    /\ \E hit \in {is_case_cached(cached, cacheRoot, Proc(p).name)} :
          last' = SetProc(p, [Proc(p) EXCEPT !.hit = hit,
                                 !.pc = IF hit THEN "lookup" ELSE "download"])
    /\ UNCHANGED <<tree, registry, cacheRoot, cached>>

\*     _download_remote(name_or_path)
DownloadRemote(p) ==
    /\ Proc(p).pc = "download"
    /\ \E d \in {_download_remote(cached, cacheRoot, Proc(p).name)} :
          /\ cached' = d.cached
          /\ last' = [SetProc(p, [Proc(p) EXCEPT !.invoked = d.invoked, !.pc = "lookup"])
                        EXCEPT !.doubled = @ \/ (/\ d.invoked
                                                 /\ is_case_cached(cached, cacheRoot,
                                                                   Proc(p).name))]
    /\ UNCHANGED <<tree, registry, cacheRoot>>

\* directory = get_cached_case_dir(...); manifest_path.is_file()
LookupDir(p) ==
    /\ Proc(p).pc = "lookup"
    /\ last' = SetProc(p, [Proc(p) EXCEPT
                  !.sawfile = HasManifestFile(tree, cached,
                                  get_cached_case_dir(cacheRoot, Proc(p).name)),
                  !.pc = "manifest"])
    /\ UNCHANGED <<tree, registry, cacheRoot, cached>>

\* parse_manifest / infer_manifest, and the return of the bundle
ReadManifest(p) ==
    /\ Proc(p).pc = "manifest"
    /\ \E r \in ManifestOutcomes(tree, cached, cacheRoot, Proc(p).name, Proc(p).sawfile) :
          last' = SetProc(p, [Proc(p) EXCEPT
                     !.result = r,
                     !.gone = ~is_case_cached(cached, cacheRoot, Proc(p).name),
                     !.pc = "idle", !.n = @ + 1])
    /\ UNCHANGED <<tree, registry, cacheRoot, cached>>

\* clear(name): the entry is removed; a load of the other process that has
\* passed its check or its download and has not returned is marked.
ClearEntry(p) ==
    /\ Proc(p).pc = "clear"
    /\ cached' = AfterClear(cached, cacheRoot, Proc(p).name)
    /\ LET q == Other(p)
           hits == /\ Proc(q).pc \in {"lookup", "manifest"}
                   /\ is_case_cached(cached, cacheRoot, Proc(q).name)
                   /\ ~is_case_cached(cached', cacheRoot, Proc(q).name)
       IN last' = [last EXCEPT
                     !.proc[p] = [@ EXCEPT !.pc = "idle", !.n = @ + 1],
                     !.proc[q] = [@ EXCEPT !.cleared = @ \/ hits]]
    /\ UNCHANGED <<tree, registry, cacheRoot>>

NextRace ==
    \E p \in Procs :
        \/ Begin(p)
        \/ CheckCached(p)
        \/ DownloadRemote(p)
        \/ LookupDir(p)
        \/ ReadManifest(p)
        \/ ClearEntry(p)

SpecRace == InitRace /\ [][NextRace]_vars

\* The load of process p has ended.
LoadEnded(p) == Proc(p).op = "load" /\ Proc(p).pc = "idle"

\* It ended in an error, or with a bundle whose directory is not there.
Broken(p) == LoadEnded(p) /\ (Proc(p).result.kind = "raise" \/ Proc(p).gone)

\* C20: nothing orders a load against the other process.  A load downloads
\* on the miss it saw, whatever the other process has downloaded since, and
\* it ends in an error or with a bundle whose directory is missing exactly
\* in interleavings where the other process cleared the entry after the
\* load had seen it cached or had downloaded it.
C20_LoadIsUnprotected ==
    \A p \in Procs :
        /\ Proc(p).pc \in {"lookup", "manifest"} \/ LoadEnded(p)
              => Proc(p).invoked = ~Proc(p).hit
        /\ Broken(p) => Proc(p).cleared
        /\ LoadEnded(p) /\ ~Proc(p).cleared
              => Proc(p).result.kind = "ok" /\ ~Proc(p).gone

\* Both races have happened: two loads of one uncached case both downloaded
\* it, and a load that had seen the case cached, or had downloaded it,
\* lost the entry to the other process's clear before it read the
\* directory.
C20_Witness ==
    /\ last.doubled
    /\ \E p \in Procs :
          /\ Broken(p)
          /\ Proc(p).hit \/ Proc(p).invoked
          /\ Proc(p).cleared
          /\ Proc(Other(p)).op = "clear"
          /\ Proc(Other(p)).name = Proc(p).name

====
